---- MODULE Spec2Model ----
(***************************************************************************)
(* Model of the video_storage_tool store pipeline and its job service.     *)
(*                                                                         *)
(* One stored item (one id, one directory under STORAGE_ROOT) is modelled: *)
(* the job table is keyed by id and every run works inside its own item    *)
(* directory, so items do not interact.  The state is the item directory   *)
(* (which files exist and whether they are complete), the content of       *)
(* manifest.json, the job table entry store_progress[id], and the          *)
(* background threads running _run_store for the id.  Next to it stand the *)
(* model-download record with its background threads, and the pure helper  *)
(* functions of the service (probes, bitrate, Range parsing), which are     *)
(* applied to inputs drawn from bounded sets.                              *)
(*                                                                         *)
(* External engines (ffprobe, ffmpeg, whisper, the T2V model) are          *)
(* nondeterministic: every outcome the call can have (success, non-zero    *)
(* exit, missing executable, timeout) is a choice of the action that ends  *)
(* the call.  An engine that is killed or fails while writing leaves its   *)
(* output file absent or partially written.                                *)
(***************************************************************************)
EXTENDS Integers, FiniteSets, Sequences, Bags, TLC

\* Bound: number of _run_store threads that can be alive at the same time.
MaxThreads == 2

\* Bound: number of _run_t2v_download threads alive at the same time.
MaxDownloads == 2

\* Bounds of the inputs the pure functions are applied to: config max_mb
\* (MB), probed durations (s), file sizes (bytes), digits in a Range bound,
\* lengths of the audio and the resultant given to reconstitute (s).
MaxMb == 3
MaxDuration == 300
MaxSize == 12
MaxDigits == 1
MaxSeconds == 6
\* The chunk the stream generator reads at a time (bytes), in place of the
\* 256 * 1024 of the source so that files of MaxSize bytes take several chunks.
chunk_size == 4

VARIABLES
    dir,             \* STORAGE_ROOT/<id> exists
    files,           \* file name -> "absent" | "partial" | "ok"
    manifest,        \* entries of manifest.json as last dumped
    store_progress,  \* store_progress.get(id): None or a progress record
    run,             \* bag of the live _run_store calls for the id
    log_last,        \* how the run that finished last was logged for the id
    callback,        \* the progress_callback run_store is given
    outputs,         \* reconstituted output name -> "absent" | "partial" | "ok"
    t2v_model_id,    \* t2v.model_id of the merged configuration
    t2v_download_status,  \* the module-level download record
    download,        \* bag of the live _run_t2v_download calls
    call,            \* a pure function and the inputs it is applied to
    result           \* what the call returned, "pending" before it ran

downloadVars == <<t2v_model_id, t2v_download_status, download>>
callVars == <<call, result>>
vars == <<dir, files, manifest, store_progress, run, log_last, callback, outputs,
          t2v_model_id, t2v_download_status, download, call, result>>

\* What the steps of the store pipeline leave alone.
outsideRun == <<log_last, callback, outputs, downloadVars, callVars>>

FileNames == {"input", "audio", "script", "resultant", "diff", "manifest"}

None == [phase |-> "none", progress |-> 0, message |-> "none"]

Progress(phase, progress, message) ==
    [phase |-> phase, progress |-> progress, message |-> message]

\* Stages of run_store and the file each one declares as its output.
Stages == {"audio", "script", "video", "diff"}
CachedStages == {"audio", "script", "video"}

Output(s) ==
    CASE s = "audio"  -> "audio"
      [] s = "script" -> "script"
      [] s = "video"  -> "resultant"
      [] s = "diff"   -> "diff"

\* Path.is_file() / Path.exists(): a partially written file exists.
is_file(fs, f) == fs[f] # "absent"

NoManifest == [resultant_video |-> FALSE, diff_video |-> FALSE]

\* Mutant of NewRun: the pipeline has run to its end before the handler
\* answers.
NewRun_synchronous(force) == [pc |-> "ret", force_script |-> force, dout |-> "na",
                              m |-> NoManifest, raised |-> "none"]

\* A _run_store call whose thread has been started and has not run yet.
NewRun(force) == [pc |-> "new", force_script |-> force, dout |-> "na",
                  m |-> NoManifest, raised |-> "none"]

\* The files api_reconstitute writes into the item directory.
OutputNames == {"reconstituted", "reconstituted_original"}
NoOutputs == [o \in OutputNames |-> "absent"]

\* t2v_download_status as the module defines it.
IdleStatus == [status |-> "idle", model_id |-> ""]

\* No pure-function call is being examined.
NoCall == [fn |-> "none"]

\* The call has not returned or raised yet.
Pending == [kind |-> "pending"]

Init ==
    /\ dir = FALSE
    /\ files = [f \in FileNames |-> "absent"]
    /\ manifest = NoManifest
    /\ store_progress = None
    /\ run = EmptyBag
    /\ log_last = "none"
    /\ callback = "progress_cb"
    /\ outputs = NoOutputs
    /\ t2v_model_id = ""
    /\ t2v_download_status = IdleStatus
    /\ download = EmptyBag
    /\ call = NoCall
    /\ result = Pending

\* The live calls, and whether any store or retry run is active.
Runs == BagToSet(run)
AnyActive == run # EmptyBag

\* threading.Thread(target=_run_store, ...).start()
CanSpawn == BagCardinality(run) < MaxThreads
Spawn(force) == run' = run (+) SetToBag({NewRun(force)})

\* One call goes from state r to state r2; the thread of r ends.
Move(r, r2) == run' = (run (-) SetToBag({r})) (+) SetToBag({r2})
End(r) == run' = run (-) SetToBag({r})

(***************************************************************************)
(* HTTP handlers of the job service.                                       *)
(***************************************************************************)

ALLOWED_EXTENSIONS == {"mp4", "mov", "avi", "mkv", "webm"}

\* The multipart uploads a store request can carry: the form field the file
\* part is in ("none": neither "video" nor "file") and the part's filename.
Filenames == {"", "clip", "clip.mp4", "clip.MOV", "notes.txt"}
Uploads == [part : {"none", "video", "file"}, filename : Filenames]

\* (Path(f.filename).suffix or "").lstrip(".").lower()
ext(filename) ==
    CASE filename = "clip.mp4"  -> "mp4"
      [] filename = "clip.MOV"  -> "mov"
      [] filename = "notes.txt" -> "txt"
      [] OTHER                  -> ""

\* Mutant of api_store_code: the extension is not looked at.
api_store_code_any_extension(upload) ==
    IF upload.part = "none" THEN 400
    ELSE IF upload.filename = "" THEN 400
    ELSE 202

\* The status code api_store answers with: 400 at each of its three early
\* returns (a FileStorage with an empty filename is falsy), else 202.
api_store_code(upload) ==
    IF upload.part = "none" THEN 400
    ELSE IF upload.filename = "" THEN 400
    ELSE IF ext(upload.filename) \notin ALLOWED_EXTENSIONS THEN 400
    ELSE 202

\* What api_store does to the storage and the threads: after an early return
\* nothing; else a fresh id (uuid4: its directory does not exist yet), the
\* directory, input.mp4 saved, the pipeline started on a thread.
api_store_effect(upload) ==
    IF api_store_code(upload) = 202
    THEN /\ ~dir
         /\ CanSpawn
         /\ dir' = TRUE
         /\ files' = [files EXCEPT !["input"] = "ok"]
         /\ Spawn(FALSE)
    ELSE UNCHANGED <<dir, files, run>>

\* POST /api/store: the answer (400, or 202 with the id and "processing")
\* is returned at once.  A rejected request changes nothing in whatever
\* state it arrives; requests are taken while the item does not exist yet.
api_store ==
    /\ ~dir
    /\ \E upload \in Uploads :
          /\ api_store_effect(upload)
          /\ UNCHANGED <<manifest, store_progress, outsideRun>>

\* POST /api/stored/<id>/retry: the status code the handler answers with.
api_stored_retry_code(d, fs, sp) ==
    IF ~d \/ ~is_file(fs, "input") THEN 404
    ELSE IF sp # None THEN 409
    ELSE 202

api_stored_retry ==
    \E force \in BOOLEAN :
        LET code == api_stored_retry_code(dir, files, store_progress)
        IN  /\ IF code = 202
               THEN /\ CanSpawn
                    /\ Spawn(force)
               ELSE UNCHANGED run
            /\ UNCHANGED <<dir, files, manifest, store_progress, outsideRun>>

\* GET /api/stored/<id>/status: the status the handler reports.
api_stored_status_of(d, fs, sp) ==
    IF ~d THEN "not_found"
    ELSE IF fs["manifest"] = "ok" THEN "ready"
    ELSE IF fs["manifest"] = "partial" THEN "error"
    ELSE "processing"

api_stored_status ==
    /\ api_stored_status_of(dir, files, store_progress) \in
           {"not_found", "ready", "error", "processing"}
    /\ UNCHANGED vars

\* GET /api/stored: the status the item gets in the list, "unlisted" when
\* its directory or its input.mp4 is missing.
api_stored_list_of(d, fs, sp) ==
    IF ~d \/ ~is_file(fs, "input") THEN "unlisted"
    ELSE IF is_file(fs, "manifest") THEN "ready"
    ELSE "incomplete"

api_stored_list ==
    /\ api_stored_list_of(dir, files, store_progress) \in
           {"unlisted", "ready", "incomplete"}
    /\ UNCHANGED vars

(***************************************************************************)
(* _run_store / run_store, one action per step that other threads can see. *)
(***************************************************************************)

Goto(r, pc) == Move(r, [r EXCEPT !.pc = pc])

Raise(r, stage) == Move(r, [r EXCEPT !.pc = "exc", !.raised = stage])

\* How an invocation of the progress callback can end.  progress_cb of
\* _run_store stores the record and logs; an injected callback may raise
\* instead.
cb_outcomes(c) == IF c = "injected" THEN {"ok", "raise"} ELSE {"ok"}

\* cb(phase, progress, message) called directly by run_store, which then
\* goes on at pc; an exception of the callback propagates out of run_store.
Callback(r, p, pc) ==
    \E c \in cb_outcomes(callback) :
        IF c = "raise"
        THEN /\ UNCHANGED store_progress
             /\ Raise(r, "callback")
        ELSE /\ store_progress' = p
             /\ Goto(r, pc)

\* Mutant of force_unlink_script: the forced removal also takes the audio.
force_unlink_script_and_audio(fs) ==
    [fs EXCEPT !["script"] = "absent", !["audio"] = "absent"]

\* if script_path.is_file(): script_path.unlink()
force_unlink_script(fs) == [fs EXCEPT !["script"] = "absent"]

\* Mutant of force_unlink_resultant: resultant.mp4 is left in place.
force_unlink_resultant_kept(fs) == fs

\* if resultant_path.is_file(): resultant_path.unlink()
force_unlink_resultant(fs) == [fs EXCEPT !["resultant"] = "absent"]

\* The thread starts: _config(), _ensure_dir, and with force_script the
\* removal of script.txt.
RunBegin(r) ==
    /\ r.pc = "new"
    /\ IF r.force_script
       THEN /\ files' = force_unlink_script(files)
            /\ Goto(r, "unlink_resultant")
       ELSE /\ UNCHANGED files
            /\ Goto(r, "audio")
    /\ UNCHANGED <<dir, manifest, store_progress, outsideRun>>

\* force_script is not read again after this step.
RunUnlinkResultant(r) ==
    /\ r.pc = "unlink_resultant"
    /\ files' = force_unlink_resultant(files)
    /\ Move(r, [r EXCEPT !.pc = "audio", !.force_script = FALSE])
    /\ UNCHANGED <<dir, manifest, store_progress, outsideRun>>

\* Mutant of stage_cached: only a completely written output counts as cached.
stage_cached_complete_only(fs, s) == fs[Output(s)] = "ok"

\* Mutant of stage_cached: the cache check never finds the output.
stage_cached_never(fs, s) == FALSE

\* "if not <output>.is_file()": the cache check in front of a stage.
stage_cached(fs, s) == is_file(fs, Output(s))

\* How an external engine that writes file f directly can end.
\*   ok            exit 0, f complete
\*   fail_clean    missing executable or input, probe timeout: f untouched
\*   fail_partial  non-zero exit or timeout while writing: f left partial
EngineOutcomes == {"ok", "fail_clean", "fail_partial"}

\* Mutant of engine_writes: the engine ends without having written f.
engine_writes_nothing(fs, f, outcome) == fs

engine_writes(fs, f, outcome) ==
    CASE outcome = "ok"           -> [fs EXCEPT ![f] = "ok"]
      [] outcome = "fail_clean"   -> fs
      [] outcome = "fail_partial" -> [fs EXCEPT ![f] = "partial"]

\* Step 1: audio.  Cached: cb(0.2, "Audio cached, skipping.").
AudioCheck(r) ==
    /\ r.pc = "audio"
    /\ IF stage_cached(files, "audio")
       THEN Callback(r, Progress("extracting_audio", 20, "cached"), "script")
       ELSE Callback(r, Progress("extracting_audio", 10, "start"), "audio_run")
    /\ UNCHANGED <<dir, files, manifest, outsideRun>>

\* extract_and_compress_audio returns or raises (subprocess.run check=True).
AudioEnd(r) ==
    /\ r.pc = "audio_run"
    /\ \E o \in EngineOutcomes :
        /\ files' = engine_writes(files, "audio", o)
        /\ IF o = "ok"
           THEN Callback(r, Progress("extracting_audio", 20, "done"), "script")
           ELSE /\ UNCHANGED store_progress
                /\ Raise(r, "audio")
    /\ UNCHANGED <<dir, manifest, outsideRun>>

\* Step 2: script.
ScriptCheck(r) ==
    /\ r.pc = "script"
    /\ IF stage_cached(files, "script")
       THEN Callback(r, Progress("transcribing", 40, "cached"), "video")
       ELSE Callback(r, Progress("transcribing", 25, "start"), "script_run")
    /\ UNCHANGED <<dir, files, manifest, outsideRun>>

\* video_to_script returns or raises.  script.txt is written to a temp file
\* and renamed; when the rename raises OSError the code writes script.txt
\* directly, and a failure of that write leaves it partial.
ScriptEnd(r) ==
    /\ r.pc = "script_run"
    /\ \E o \in EngineOutcomes :
        /\ files' = engine_writes(files, "script", o)
        /\ IF o = "ok"
           THEN Callback(r, Progress("transcribing", 40, "done"), "video")
           ELSE /\ UNCHANGED store_progress
                /\ Raise(r, "script")
    /\ UNCHANGED <<dir, manifest, outsideRun>>

\* Step 3: resultant video.  script_to_video first reads script.txt; with
\* the default backend "stub" it reports no progress (the other backend
\* reports through _report, which swallows what the callback raises).
VideoCheck(r) ==
    /\ r.pc = "video"
    /\ IF stage_cached(files, "video")
       THEN Callback(r, Progress("cogvideox", 100, "cached"), "diff")
       ELSE /\ UNCHANGED store_progress
            /\ IF is_file(files, "script")
               THEN Goto(r, "video_run")
               ELSE Raise(r, "video")
    /\ UNCHANGED <<dir, files, manifest, outsideRun>>

VideoEnd(r) ==
    /\ r.pc = "video_run"
    /\ \E o \in EngineOutcomes :
        /\ files' = engine_writes(files, "resultant", o)
        /\ IF o = "ok" THEN Goto(r, "diff") ELSE Raise(r, "video")
    /\ UNCHANGED <<dir, manifest, store_progress, outsideRun>>

\* Step 4: compute_diff up to the start of the encoder.  The configuration
\* read by this run decides `enabled`; each ffprobe call succeeds, fails
\* (caught: info is None, or duration <= 0) or exceeds its timeout
\* (subprocess.TimeoutExpired is not among the caught exceptions).
ProbeOutcomes == {"ok", "fail", "timeout"}

\* What compute_diff does before it encodes: "disabled" and "failed" return
\* None, "raise" propagates the probe's timeout, "encode" runs ffmpeg.
compute_diff_entry(fs, enabled, probe) ==
    IF ~enabled THEN "disabled"
    ELSE IF ~is_file(fs, "input") \/ ~is_file(fs, "resultant") THEN "failed"
    ELSE IF probe = "fail" THEN "failed"
    ELSE IF probe = "timeout" THEN "raise"
    ELSE "encode"

DiffStart(r) ==
    /\ r.pc = "diff"
    /\ \E enabled \in BOOLEAN, probe \in ProbeOutcomes :
        LET e == compute_diff_entry(files, enabled, probe)
        IN  CASE e = "raise"  -> Raise(r, "diff")
              [] e = "encode" -> Goto(r, "diff_run")
              [] OTHER        -> Move(r, [r EXCEPT !.pc = "manifest", !.dout = e])
    /\ UNCHANGED <<dir, files, manifest, store_progress, outsideRun>>

\* How the encoder and the diagnostic pass of compute_diff can end.
\*   ok             diff.ogv written, diagnostic done or skipped
\*   enc_fail       CalledProcessError / FileNotFoundError, caught: None
\*   enc_partial    the same, with diff.ogv left partial
\*   enc_timeout    TimeoutExpired from the encoder, not caught
\*   stats_timeout  diff.ogv written, TimeoutExpired from _log_diff_stats
DiffOutcomes == {"ok", "enc_fail", "enc_partial", "enc_timeout", "stats_timeout"}

\* Whether compute_diff raises for an outcome instead of returning.
compute_diff_raises(o) == o \in {"enc_timeout", "stats_timeout"}

diff_writes(fs, o) ==
    CASE o \in {"ok", "stats_timeout"}       -> [fs EXCEPT !["diff"] = "ok"]
      [] o \in {"enc_partial", "enc_timeout"} -> [fs EXCEPT !["diff"] = "partial"]
      [] OTHER                                -> fs

DiffEnd(r) ==
    /\ r.pc = "diff_run"
    /\ \E o \in DiffOutcomes :
        /\ files' = diff_writes(files, o)
        /\ IF compute_diff_raises(o)
           THEN Raise(r, "diff")
           ELSE Move(r, [r EXCEPT !.pc = "manifest",
                                     !.dout = IF o = "ok" THEN "ok" ELSE "failed"])
    /\ UNCHANGED <<dir, manifest, store_progress, outsideRun>>

\* The value compute_diff returned: a path (TRUE) or None (FALSE).
compute_diff_return(dout) == dout = "ok"

\* Mutant of manifest_entries: diff_video records any diff.ogv on disk.
manifest_entries_stale_diff(fs, dout) ==
    [resultant_video |-> is_file(fs, "resultant"),
     diff_video      |-> is_file(fs, "diff")]

\* The dict _write_manifest builds (audio and script are always str(path)).
manifest_entries(fs, dout) ==
    [resultant_video |-> is_file(fs, "resultant"),
     diff_video      |-> compute_diff_return(dout) /\ is_file(fs, "diff")]

\* _write_manifest: the dict is built, then open(manifest.json, "w")
\* creates or truncates the file.
ManifestOpen(r) ==
    /\ r.pc = "manifest"
    /\ files' = [files EXCEPT !["manifest"] = "partial"]
    /\ Move(r, [r EXCEPT !.pc = "dump", !.m = manifest_entries(files, r.dout)])
    /\ UNCHANGED <<dir, manifest, store_progress, outsideRun>>

\* json.dump and close; run_store returns.
ManifestDump(r) ==
    /\ r.pc = "dump"
    /\ files' = [files EXCEPT !["manifest"] = "ok"]
    /\ manifest' = r.m
    /\ Goto(r, "ret")
    /\ UNCHANGED <<dir, store_progress, outsideRun>>

\* Mutant of finally_pop: the record is removed only when run_store returned.
pop_on_success_only(sp, pc) == IF pc = "ret" THEN None ELSE sp

\* finally: store_progress.pop(job_id, None)
finally_pop(sp, pc) == None

\* _run_store after run_store returned ("ret") or raised ("exc"): "Done."
\* or "Failed: ..." is logged, the finally clause pops the record; the
\* thread ends.
RunFinish(r) ==
    /\ r.pc \in {"ret", "exc"}
    /\ log_last' = (IF r.pc = "exc" THEN "failed" ELSE "done")
    /\ store_progress' = finally_pop(store_progress, r.pc)
    /\ End(r)
    /\ UNCHANGED <<dir, files, manifest, callback, outputs, downloadVars, callVars>>

\* A step of one of the live _run_store threads.
ThreadStep ==
    \/ \E r \in Runs : RunBegin(r)
    \/ \E r \in Runs : RunUnlinkResultant(r)
    \/ \E r \in Runs : AudioCheck(r)
    \/ \E r \in Runs : AudioEnd(r)
    \/ \E r \in Runs : ScriptCheck(r)
    \/ \E r \in Runs : ScriptEnd(r)
    \/ \E r \in Runs : VideoCheck(r)
    \/ \E r \in Runs : VideoEnd(r)
    \/ \E r \in Runs : DiffStart(r)
    \/ \E r \in Runs : DiffEnd(r)
    \/ \E r \in Runs : ManifestOpen(r)
    \/ \E r \in Runs : ManifestDump(r)
    \/ \E r \in Runs : RunFinish(r)

Next ==
    \/ api_store
    \/ api_stored_retry
    \/ api_stored_status
    \/ api_stored_list
    \/ ThreadStep

Spec == Init /\ [][Next]_vars

\* The behaviours of Spec in which the client never has two runs of the id
\* alive at once: it sends no retry that would start a second one.
SequentialNext ==
    \/ api_store
    \/ api_stored_retry /\ BagCardinality(run') <= 1
    \/ api_stored_status
    \/ api_stored_list
    \/ ThreadStep

SpecSequential == Init /\ [][SequentialNext]_vars

\* run_store driven with an injected progress_callback (its parameter takes
\* any callable) that can raise at each invocation.
InitInjected ==
    /\ dir = FALSE
    /\ files = [f \in FileNames |-> "absent"]
    /\ manifest = NoManifest
    /\ store_progress = None
    /\ run = EmptyBag
    /\ log_last = "none"
    /\ callback = "injected"
    /\ outputs = NoOutputs
    /\ t2v_model_id = ""
    /\ t2v_download_status = IdleStatus
    /\ download = EmptyBag
    /\ call = NoCall
    /\ result = Pending

SpecInjected == InitInjected /\ [][SequentialNext]_vars

\* SpecSequential with the threads scheduled: a live _run_store thread
\* eventually takes its next step.
SpecSequentialFair == SpecSequential /\ WF_vars(ThreadStep)

(***************************************************************************)
(* The model download: /api/settings, /api/t2v/download and the thread     *)
(* running _run_t2v_download.                                              *)
(***************************************************************************)

\* Model ids the settings can name; "" is no model configured.
ModelIds == {"THUDM/CogVideoX-2b", "THUDM/CogVideoX-5b"}

\* PUT /api/settings, as far as it changes t2v.model_id of the merged
\* configuration.
api_settings_put ==
    /\ \E id \in ModelIds \cup {""} : t2v_model_id' = id
    /\ UNCHANGED <<dir, files, manifest, store_progress, run, log_last,
                   callback, outputs, t2v_download_status, download, callVars>>

\* POST /api/t2v/download: the status code the handler answers with.
api_t2v_download_code(model_id, st) ==
    IF model_id = "" THEN 400
    ELSE IF st.status = "downloading" THEN 409
    ELSE 202

\* threading.Thread(target=_run_t2v_download, args=(model_id,)).start()
NewDownload(model_id) == [pc |-> "new", model_id |-> model_id]

api_t2v_download ==
    /\ IF api_t2v_download_code(t2v_model_id, t2v_download_status) = 202
       THEN /\ BagCardinality(download) < MaxDownloads
            /\ download' = download (+) SetToBag({NewDownload(t2v_model_id)})
       ELSE UNCHANGED download
    /\ UNCHANGED <<dir, files, manifest, store_progress, run, log_last,
                   callback, outputs, t2v_model_id, t2v_download_status, callVars>>

\* GET /api/t2v/download/status
api_t2v_download_status ==
    /\ t2v_download_status.status \in {"idle", "downloading", "done", "error"}
    /\ UNCHANGED vars

\* _run_t2v_download starts: the thread's first statement sets the record.
DownloadBegin(t) ==
    /\ t.pc = "new"
    /\ t2v_download_status' = [status |-> "downloading", model_id |-> t.model_id]
    /\ download' = (download (-) SetToBag({t}))
                        (+) SetToBag({[t EXCEPT !.pc = "running"]})
    /\ UNCHANGED <<dir, files, manifest, store_progress, run, log_last,
                   callback, outputs, t2v_model_id, callVars>>

\* snapshot_download returns ("done") or raises ("error"); the thread ends.
DownloadEnd(t) ==
    /\ t.pc = "running"
    /\ \E o \in {"done", "error"} :
          t2v_download_status' = [status |-> o, model_id |-> t.model_id]
    /\ download' = download (-) SetToBag({t})
    /\ UNCHANGED <<dir, files, manifest, store_progress, run, log_last,
                   callback, outputs, t2v_model_id, callVars>>

DownloadNext ==
    \/ api_settings_put
    \/ api_t2v_download
    \/ api_t2v_download_status
    \/ \E t \in BagToSet(download) : DownloadBegin(t)
    \/ \E t \in BagToSet(download) : DownloadEnd(t)

SpecDownload == Init /\ [][DownloadNext]_vars

(***************************************************************************)
(* The probe helpers.  Each one runs ffprobe through subprocess.run(...,    *)
(* check=True, timeout=...) and parses its standard output.                *)
(***************************************************************************)

Return(v) == [kind |-> "return", value |-> v]
Raises(e) == [kind |-> "raise", exception |-> e]

\* How the ffprobe process can end.
FfprobeExits == {"exit0", "nonzero_exit", "missing_file", "missing_executable",
                 "timeout"}

\* What subprocess.run does for each of them.
subprocess_run(exit) ==
    CASE exit = "exit0"              -> "completed"
      [] exit = "nonzero_exit"       -> "CalledProcessError"
      [] exit = "missing_file"       -> "CalledProcessError"
      [] exit = "missing_executable" -> "FileNotFoundError"
      [] exit = "timeout"            -> "TimeoutExpired"

\* float(out.stdout.strip() or 0): the text is empty, is no number
\* (ValueError) or is the number `number`.
float_of_stdout(text, number) ==
    CASE text = "empty"  -> Return(0)
      [] text = "number" -> Return(number)
      [] OTHER           -> Raises("ValueError")

\* try: ... except (CalledProcessError, ValueError, FileNotFoundError):
\*     return 0.0
duration_probe(exit, text, number) ==
    LET ran == subprocess_run(exit)
        r   == IF ran = "completed" THEN float_of_stdout(text, number)
               ELSE Raises(ran)
    IN  IF r.kind = "raise" /\ r.exception \in
              {"CalledProcessError", "ValueError", "FileNotFoundError"}
        THEN Return(0)
        ELSE r

get_video_duration_seconds(exit, text, number) ==
    duration_probe(exit, text, number)

get_media_duration_seconds(exit, text, number) ==
    duration_probe(exit, text, number)

\* The value _probe_video returns for "no media info".
NoInfo == -1

\* _probe_video: json.loads, then None when there is no video stream or no
\* width/height, else the info dict (here its duration_sec, 0 when the
\* format has no duration).
_probe_video(exit, text, number) ==
    LET ran == subprocess_run(exit)
        r   == IF ran # "completed" THEN Raises(ran)
               ELSE CASE text = "garbage"    -> Raises("JSONDecodeError")
                      [] text = "no_streams" -> Return(NoInfo)
                      [] text = "no_width"   -> Return(NoInfo)
                      [] OTHER               -> Return(number)
    IN  IF r.kind = "raise" /\ r.exception \in
              {"CalledProcessError", "JSONDecodeError", "ValueError",
               "FileNotFoundError", "KeyError"}
        THEN Return(NoInfo)
        ELSE r

\* The probe calls examined: every way the process can end, and for a
\* completed process every kind of output.
DurationProbeFns == {"get_video_duration_seconds", "get_media_duration_seconds"}
ProbeFns == DurationProbeFns \cup {"_probe_video"}

ProbeTexts(fn) ==
    IF fn = "_probe_video" THEN {"garbage", "no_streams", "no_width", "json"}
    ELSE {"empty", "garbage", "number"}

ProbeCalls ==
    {[fn |-> fn, exit |-> "exit0", text |-> t, number |-> n] :
        fn \in ProbeFns, t \in {"garbage", "number", "json"}, n \in 0..MaxDuration}
    \cup
    {[fn |-> fn, exit |-> x, text |-> t, number |-> 0] :
        fn \in ProbeFns, x \in FfprobeExits,
        t \in {"empty", "garbage", "no_streams", "no_width", "number", "json"}}

ValidProbeCall(c) ==
    /\ c.text \in ProbeTexts(c.fn)
    /\ (c.number # 0) => c.text \in {"number", "json"}

Call_get_video_duration_seconds ==
    /\ call.fn = "get_video_duration_seconds" /\ result = Pending
    /\ result' = get_video_duration_seconds(call.exit, call.text, call.number)
    /\ UNCHANGED <<dir, files, manifest, store_progress, run, log_last,
                   callback, outputs, downloadVars, call>>

Call_get_media_duration_seconds ==
    /\ call.fn = "get_media_duration_seconds" /\ result = Pending
    /\ result' = get_media_duration_seconds(call.exit, call.text, call.number)
    /\ UNCHANGED <<dir, files, manifest, store_progress, run, log_last,
                   callback, outputs, downloadVars, call>>

Call__probe_video ==
    /\ call.fn = "_probe_video" /\ result = Pending
    /\ result' = _probe_video(call.exit, call.text, call.number)
    /\ UNCHANGED <<dir, files, manifest, store_progress, run, log_last,
                   callback, outputs, downloadVars, call>>

(***************************************************************************)
(* The audio bitrate of extract_and_compress_audio.                        *)
(***************************************************************************)

Min(a, b) == IF a < b THEN a ELSE b
Max(a, b) == IF a > b THEN a ELSE b

\* Mutant of bitrate_k: the computed bitrate is not clamped from above.
bitrate_k_no_ceiling(max_mb, duration) ==
    IF duration > 0
    THEN Max(32, ((max_mb * 1000000 * 8) \div duration) \div 1000)
    ELSE 128

\* target_bits = max_mb * 1e6 * 8; int(target_bits / duration / 1000)
\* clamped into [32, 320]; 128 when the duration is unknown.  The code's
\* quotient is positive, so int() rounds it down.
bitrate_k(max_mb, duration) ==
    IF duration > 0
    THEN Max(32, Min(320, ((max_mb * 1000000 * 8) \div duration) \div 1000))
    ELSE 128

\* max_mb of the configuration and the duration the probe returned (0 or
\* less: unknown).
BitrateCalls ==
    {[fn |-> "extract_and_compress_audio", max_mb |-> m, duration |-> d] :
        m \in 1..MaxMb, d \in -1..MaxDuration}

Call_extract_and_compress_audio ==
    /\ call.fn = "extract_and_compress_audio" /\ result = Pending
    /\ result' = Return(bitrate_k(call.max_mb, call.duration))
    /\ UNCHANGED <<dir, files, manifest, store_progress, run, log_last,
                   callback, outputs, downloadVars, call>>

(***************************************************************************)
(* GET /stream/<id> on an existing file of `size` bytes, and _parse_range.  *)
(***************************************************************************)

\* The decimal strings (\d*) can match, as sequences of digits.
DigitStrings == UNION {[1..n -> 0..9] : n \in 0..MaxDigits}

\* int(s) for a non-empty string of decimal digits.
RECURSIVE int(_)
int(s) ==
    IF Len(s) = 0 THEN 0
    ELSE 10 * int(SubSeq(s, 1, Len(s) - 1)) + s[Len(s)]

\* A Range header: absent, not starting with "bytes=", starting with it but
\* not matching bytes=(\d*)-(\d*), or bytes=<s>-<e><tail>.  re.match anchors
\* the pattern at the start only, so the tail (empty, or text that does not
\* start with a digit, as in "bytes=0-5xyz" or "bytes=0-5,9-12") is not
\* looked at.
RangeHeaders ==
    {[kind |-> k, s |-> <<>>, e |-> <<>>, tail |-> ""] :
        k \in {"absent", "not_bytes", "malformed"}}
    \cup {[kind |-> "bytes", s |-> s, e |-> e, tail |-> t] :
             s, e \in DigitStrings, t \in {"", "xyz"}}

NoRange == [some |-> FALSE, start |-> 0, end |-> 0]

\* Mutant of _parse_range: the end is not clipped to the file size.
_parse_range_unclipped(header, total) ==
    IF header.kind # "bytes" THEN NoRange
    ELSE LET start == IF header.s # <<>> THEN int(header.s) ELSE 0
             end   == IF header.e # <<>> THEN int(header.e) ELSE total - 1
         IN  IF start > end \/ start >= total THEN NoRange
             ELSE [some |-> TRUE, start |-> start, end |-> end]

\* _parse_range(header, total): (start, end) inclusive, or None.
_parse_range(header, total) ==
    IF header.kind # "bytes" THEN NoRange
    ELSE LET start == IF header.s # <<>> THEN int(header.s) ELSE 0
             end   == IF header.e # <<>> THEN int(header.e) ELSE total - 1
         IN  IF start > end \/ start >= total THEN NoRange
             ELSE [some |-> TRUE, start |-> start, end |-> Min(end, total - 1)]

\* The response stream() builds: status and headers.  Content-Range is
\* "bytes <start>-<end>/<size>", here the three numbers; <<>> when absent.
stream(header, size) ==
    LET parsed    == IF header.kind # "absent" THEN _parse_range(header, size)
                     ELSE NoRange
        use_range == parsed.some
        start     == IF use_range THEN parsed.start ELSE 0
        end       == IF use_range THEN parsed.end ELSE size - 1
    IN  [status         |-> IF use_range THEN 206 ELSE 200,
         Accept_Ranges  |-> "bytes",
         Content_Length |-> end - start + 1,
         Content_Range  |-> IF use_range THEN <<start, end, size>> ELSE <<>>]

StreamCalls == [fn : {"stream"}, header : RangeHeaders, size : 1..MaxSize]

Call_stream ==
    /\ call.fn = "stream" /\ result = Pending
    /\ result' = Return(stream(call.header, call.size))
    /\ UNCHANGED <<dir, files, manifest, store_progress, run, log_last,
                   callback, outputs, downloadVars, call>>

(***************************************************************************)
(* The geometry (width, height, frame rate) of the video streams that       *)
(* compute_diff and apply_diff_ffmpeg hand to the blend filter.             *)
(***************************************************************************)

Geometries == [width : {640, 1280}, height : {480, 720}, fps : {24, 30}]

\* _generate_stub: color=c=black:s=1280x720, at the rate the engine gives it.
_generate_stub(fps) == [width |-> 1280, height |-> 720, fps |-> fps]

\* The resultant of a store: the stub's, or what the model generated.
resultant_geometry(backend, generated) ==
    IF backend = "stub" THEN _generate_stub(generated.fps) ELSE generated

\* The filters of the two commands, by what they do to a stream's geometry.
trim(g) == g
fps_filter(g, fps) == [g EXCEPT !.fps = fps]
scale_pad(g, w, h) == [g EXCEPT !.width = w, !.height = h]

\* compute_diff: both inputs are trimmed, set to the original's fps and
\* scaled and padded to the original's w:h, then blended; diff.ogv has the
\* geometry of the blended streams.
compute_diff(info_orig, info_res) ==
    LET w    == info_orig.width
        h    == info_orig.height
        fps  == info_orig.fps
        orig == scale_pad(fps_filter(trim(info_orig), fps), w, h)
        res  == scale_pad(fps_filter(trim(info_res), fps), w, h)
    IN  [orig |-> orig, res |-> res, out |-> orig]

\* apply_diff_ffmpeg: "[0:v]trim[res];[1:v]trim[diff];[res][diff]blend":
\* the two streams that are added.
apply_diff_streams(resultant, diff) ==
    [res |-> trim(resultant), diff |-> trim(diff)]

GeometryCalls ==
    [fn : {"apply_diff_ffmpeg"}, original : Geometries,
     backend : {"stub", "cogvideox"}, generated : Geometries]

\* Store computes the diff of the original and the resultant; reconstitute
\* applies it to the resultant.
Call_apply_diff_ffmpeg ==
    /\ call.fn = "apply_diff_ffmpeg" /\ result = Pending
    /\ LET resultant == resultant_geometry(call.backend, call.generated)
           diff      == compute_diff(call.original, resultant).out
       IN  result' = Return(apply_diff_streams(resultant, diff))
    /\ UNCHANGED <<dir, files, manifest, store_progress, run, log_last,
                   callback, outputs, downloadVars, call>>

(***************************************************************************)
(* The progress values one run_store call hands to its callback, in         *)
(* percent and in the order of the calls, when no stage raises.  Every call *)
(* of the callback precedes _write_manifest, the last statement.            *)
(***************************************************************************)

\* _describe_video_frames: 0.35 + 0.05 * (i / max(n, 1)) for frame i of n.
_describe_video_frames(n) ==
    [k \in 1..n |-> 35 + (5 * (k - 1)) \div Max(n, 1)]

\* video_to_script: with a visual backend, 0.35, the frames, 0.4.
video_to_script(visual, n) ==
    IF visual THEN <<35>> \o _describe_video_frames(n) \o <<40>> ELSE <<>>

\* How _generate_cogvideo can go.
CogvideoOutcomes ==
    {"import_error", "no_model", "load_error", "generate_error", "ok"}

\* _generate_cogvideo: the values it reports through _report.
_generate_cogvideo(outcome) ==
    CASE outcome = "import_error"   -> <<0>>
      [] outcome = "no_model"       -> <<>>
      [] outcome = "load_error"     -> <<50, 0>>
      [] outcome = "generate_error" -> <<50, 80, 85, 0>>
      [] outcome = "ok"             -> <<50, 80, 85, 100>>

\* script_to_video: the stub backend reports nothing.
script_to_video(backend, outcome) ==
    IF backend = "cogvideox" THEN _generate_cogvideo(outcome) ELSE <<>>

\* run_store: steps 1 to 3, each cached or executed.
run_store(c) ==
    (IF c.audio_cached THEN <<20>> ELSE <<10, 20>>)
    \o (IF c.script_cached THEN <<40>>
        ELSE <<25>> \o video_to_script(c.visual, c.frames) \o <<40>>)
    \o (IF c.resultant_cached THEN <<100>>
        ELSE script_to_video(c.backend, c.outcome))

RunStoreProgressCalls ==
    [fn : {"run_store"}, audio_cached : BOOLEAN, script_cached : BOOLEAN,
     resultant_cached : BOOLEAN, visual : BOOLEAN, frames : {0, 1, 5},
     backend : {"stub", "cogvideox"}, outcome : CogvideoOutcomes]

Call_run_store ==
    /\ call.fn = "run_store" /\ result = Pending
    /\ result' = Return(run_store(call))
    /\ UNCHANGED <<dir, files, manifest, store_progress, run, log_last,
                   callback, outputs, downloadVars, call>>

(***************************************************************************)
(* _stream_file_with_progress(file_path, start, end): the generator behind  *)
(* the response body.  The file is a sequence of size bytes and byte i of   *)
(* it is written i, so a chunk is the sequence of the positions it holds.   *)
(***************************************************************************)

\* f.read(n) at position pos of a file of size bytes.
read(size, pos, n) ==
    [i \in 1..Max(0, Min(n, size - pos)) |-> pos + i - 1]

\* Mutant of to_read: a whole chunk is asked for every time.
to_read_whole_chunk(content_length, sent) == chunk_size

\* to_read = min(chunk_size, content_length - sent)
to_read(content_length, sent) == Min(chunk_size, content_length - sent)

\* The generator suspended at its yield, and the chunks it has yielded.
Yielded(sent, chunks) ==
    [kind |-> "yield", sent |-> sent, chunks |-> chunks]

\* The generator has ended: the loop ran out, or the consumer closed it at
\* a yield and the finally clause ran.
Ended(sent, chunks, closed) ==
    Return([sent |-> sent, chunks |-> chunks, closed |-> closed])

\* One next() of the generator: from the call, or from the last yield, to
\* the next yield or to the end of the loop.
generator_next(c, sent, chunks) ==
    LET content_length == c.end - c.start + 1
        data == read(c.size, c.start + sent, to_read(content_length, sent))
    IN  IF sent < content_length /\ data # <<>>
        THEN Yielded(sent + Len(data), Append(chunks, data))
        ELSE Ended(sent, chunks, FALSE)

\* The ranges stream hands to the generator: 0 <= start <= end <= size - 1.
GeneratorCalls ==
    {c \in [fn : {"_stream_file_with_progress"}, size : 1..MaxSize,
            start : 0..(MaxSize - 1), end : 0..(MaxSize - 1)] :
        c.start <= c.end /\ c.end <= c.size - 1}

Call__stream_file_with_progress ==
    /\ call.fn = "_stream_file_with_progress"
    /\ result.kind \in {"pending", "yield"}
    /\ result' = IF result = Pending THEN generator_next(call, 0, <<>>)
                 ELSE generator_next(call, result.sent, result.chunks)
    /\ UNCHANGED <<dir, files, manifest, store_progress, run, log_last,
                   callback, outputs, downloadVars, call>>

\* The consumer stops after a chunk: the generator is closed at its yield.
Close__stream_file_with_progress ==
    /\ call.fn = "_stream_file_with_progress"
    /\ result.kind = "yield"
    /\ result' = Ended(result.sent, result.chunks, TRUE)
    /\ UNCHANGED <<dir, files, manifest, store_progress, run, log_last,
                   callback, outputs, downloadVars, call>>

(***************************************************************************)
(* reconstitute(stored_dir, out_path, use_diff=...), up to the media-engine *)
(* command it hands to subprocess.run.                                      *)
(***************************************************************************)

\* find_artifacts(stored_dir): which of (audio_path, resultant_path,
\* diff_path) are not None.  json.load raises on a manifest.json that is
\* not complete JSON.  With a manifest the paths it names are used when
\* audio and resultant exist, and diff.ogv is looked up by name when the
\* named diff does not exist; otherwise the three are discovered by name:
\* in both branches a path is returned exactly when the file exists.
find_artifacts(fs) ==
    IF fs["manifest"] = "partial" THEN Raises("JSONDecodeError")
    ELSE Return([audio     |-> is_file(fs, "audio"),
                 resultant |-> is_file(fs, "resultant"),
                 diff      |-> is_file(fs, "diff")])

\* Mutant of loop_count: the quotient without the extra loop.
loop_count_no_extra(target_duration_sec, video_duration_sec) ==
    target_duration_sec \div video_duration_sec

\* loop_count = int(target_duration_sec / video_duration_sec) + 1, both
\* positive.
loop_count(target_duration_sec, video_duration_sec) ==
    (target_duration_sec \div video_duration_sec) + 1

\* The ffmpeg command _merge_ffmpeg builds: -stream_loop (when looped), the
\* inputs, -t, -c:v.
_merge_ffmpeg(target_duration_sec, video_duration_sec) ==
    IF video_duration_sec <= 0 \/ video_duration_sec >= target_duration_sec
    THEN [blend |-> FALSE, looped |-> FALSE, stream_loop |-> 0,
          t |-> target_duration_sec, vcodec |-> "copy"]
    ELSE [blend |-> FALSE, looped |-> TRUE,
          stream_loop |-> loop_count(target_duration_sec, video_duration_sec),
          t |-> target_duration_sec, vcodec |-> "libx264"]

\* The ffmpeg command apply_diff_ffmpeg builds from the duration
\* _get_duration returned for the resultant: resultant and diff (both
\* looped when looped) blended by addition, the audio mapped, -t.
apply_diff_ffmpeg(target_duration_sec, video_dur) ==
    IF video_dur <= 0 \/ video_dur >= target_duration_sec
    THEN [blend |-> TRUE, looped |-> FALSE, stream_loop |-> 0,
          t |-> target_duration_sec, vcodec |-> "libx264"]
    ELSE [blend |-> TRUE, looped |-> TRUE,
          stream_loop |-> loop_count(target_duration_sec, video_dur),
          t |-> target_duration_sec, vcodec |-> "libx264"]

\* Mutant of reconstitute: use_diff without a diff file is an error.
reconstitute_diff_required(fs, use_diff, audio_probe, video_probe) ==
    LET found == find_artifacts(fs)
    IN  IF found.kind = "raise" THEN found
        ELSE IF ~found.value.audio \/ ~found.value.resultant
        THEN Raises("FileNotFoundError")
        ELSE IF audio_probe.kind = "raise" THEN audio_probe
        ELSE IF audio_probe.value <= 0 THEN Raises("ValueError")
        ELSE IF use_diff /\ ~found.value.diff THEN Raises("FileNotFoundError")
        ELSE IF video_probe.kind = "raise" THEN video_probe
        ELSE Return(
            [cmd     |-> IF use_diff
                         THEN apply_diff_ffmpeg(audio_probe.value,
                                                video_probe.value)
                         ELSE _merge_ffmpeg(audio_probe.value,
                                            video_probe.value),
             warning |-> FALSE])

\* reconstitute up to subprocess.run: the exception it raises, or the
\* command it runs and whether it warned.  audio_probe and video_probe are
\* what the duration probes of audio and resultant do; the resultant is
\* probed by get_media_duration_seconds or, with the diff, by _get_duration,
\* which handle the same exceptions.
reconstitute(fs, use_diff, audio_probe, video_probe) ==
    LET found == find_artifacts(fs)
    IN  IF found.kind = "raise" THEN found
        ELSE IF ~found.value.audio \/ ~found.value.resultant
        THEN Raises("FileNotFoundError")
        ELSE IF audio_probe.kind = "raise" THEN audio_probe
        ELSE IF audio_probe.value <= 0 THEN Raises("ValueError")
        ELSE IF video_probe.kind = "raise" THEN video_probe
        ELSE Return(
            [cmd     |-> IF use_diff /\ found.value.diff
                         THEN apply_diff_ffmpeg(audio_probe.value,
                                                video_probe.value)
                         ELSE _merge_ffmpeg(audio_probe.value,
                                            video_probe.value),
             warning |-> use_diff /\ ~found.value.diff])

\* The duration of the file ffmpeg writes for the command from an audio of
\* audio_len and a video of video_len seconds: -stream_loop n plays the
\* video n more times, the output lasts as long as its longest stream, and
\* -t cuts it.
ffmpeg_duration(cmd, audio_len, video_len) ==
    LET plays == IF cmd.looped THEN cmd.stream_loop + 1 ELSE 1
    IN  Min(cmd.t, Max(audio_len, plays * video_len))

\* The item directories reconstitute is applied to: any of audio, resultant
\* and diff present, manifest.json absent, partly written or complete.
ReconstituteDirs ==
    {[f \in FileNames |->
        CASE f = "input"    -> "ok"
          [] f = "script"   -> "ok"
          [] f = "manifest" -> m
          [] OTHER          -> IF f \in S THEN "ok" ELSE "absent"] :
        S \in SUBSET {"audio", "resultant", "diff"},
        m \in {"absent", "partial", "ok"}}

\* The ways a duration probe of reconstitute ends, of those
\* subprocess_run tells apart.
ReconstituteExits == {"exit0", "nonzero_exit", "timeout"}

\* Durations are whole seconds; audio_len and video_len are the lengths of
\* the two files, which a probe that completes reports.
ReconstituteCalls ==
    [fn : {"reconstitute"}, fs : ReconstituteDirs, use_diff : BOOLEAN,
     audio_exit : ReconstituteExits, audio_len : 1..MaxSeconds,
     video_exit : ReconstituteExits, video_len : 1..MaxSeconds]

Call_reconstitute ==
    /\ call.fn = "reconstitute" /\ result = Pending
    /\ result' = reconstitute(
           call.fs, call.use_diff,
           get_media_duration_seconds(call.audio_exit, "number", call.audio_len),
           get_media_duration_seconds(call.video_exit, "number", call.video_len))
    /\ UNCHANGED <<dir, files, manifest, store_progress, run, log_last,
                   callback, outputs, downloadVars, call>>

(***************************************************************************)
(* One call of _run_store(input_path, out_dir, job_id, force_script=...)    *)
(* on an item directory left by earlier runs.                               *)
(***************************************************************************)

\* The files an item directory holds when a run starts: what a store run
\* that stopped after any stage, or completed with or without a diff, or a
\* forced run that failed in the transcription, has left.
StartFileSets ==
    {{"input"},
     {"input", "audio"},
     {"input", "audio", "script"},
     {"input", "audio", "script", "resultant"},
     {"input", "audio", "script", "resultant", "diff"},
     {"input", "audio", "script", "resultant", "manifest"},
     {"input", "audio", "script", "resultant", "diff", "manifest"},
     {"input", "audio", "diff", "manifest"}}

StartDirs ==
    {[f \in FileNames |-> IF f \in S THEN "ok" ELSE "absent"] :
        S \in StartFileSets}

RunStoreCalls == [fn : {"_run_store"}, force_script : BOOLEAN, fs : StartDirs]

\* The thread of the call has been started.
InitRunStore ==
    /\ call \in RunStoreCalls
    /\ result = Pending
    /\ dir = TRUE
    /\ files = call.fs
    /\ manifest = (IF is_file(call.fs, "manifest")
                   THEN [resultant_video |-> TRUE,
                         diff_video      |-> is_file(call.fs, "diff")]
                   ELSE NoManifest)
    /\ store_progress = None
    /\ run = SetToBag({NewRun(call.force_script)})
    /\ log_last = "none"
    /\ callback = "progress_cb"
    /\ outputs = NoOutputs
    /\ t2v_model_id = ""
    /\ t2v_download_status = IdleStatus
    /\ download = EmptyBag

SpecRunStore == InitRunStore /\ [][ThreadStep]_vars

(***************************************************************************)
(* POST /api/reconstitute of the job service.                               *)
(***************************************************************************)

\* out_name: reconstituted_original.mp4 if use_original else
\* reconstituted.mp4.
out_name(use_original) ==
    IF use_original THEN "reconstituted_original" ELSE "reconstituted"

\* Mutant of reconstitute_writes: the blended video is also written over
\* resultant.mp4.
reconstitute_writes_in_place(fs, outs, name, r, outcome) ==
    IF r.kind = "raise" THEN [files |-> fs, outputs |-> outs]
    ELSE [files   |-> engine_writes(fs, "resultant", outcome),
          outputs |-> engine_writes(outs, name, outcome)]

\* What reconstitute(st, out_path, ...) leaves in the item directory: when
\* it raised before subprocess.run nothing is written; else ffmpeg -y writes
\* out_path, the last argument of the command, and the command ends in one
\* of the ways of EngineOutcomes.
reconstitute_writes(fs, outs, name, r, outcome) ==
    IF r.kind = "raise" THEN [files |-> fs, outputs |-> outs]
    ELSE [files |-> fs, outputs |-> engine_writes(outs, name, outcome)]

\* The early returns of the handler: no stored_id (400), or no directory
\* or no manifest.json in it (404).
api_reconstitute_early(has_id, d, fs) ==
    IF ~has_id THEN 400
    ELSE IF ~d \/ ~is_file(fs, "manifest") THEN 404
    ELSE 0

\* The status code of the answer.
api_reconstitute_code(has_id, d, fs, r, outcome) ==
    IF api_reconstitute_early(has_id, d, fs) # 0
    THEN api_reconstitute_early(has_id, d, fs)
    ELSE IF r.kind = "raise"
    THEN IF r.exception = "FileNotFoundError" THEN 400 ELSE 500
    ELSE IF outcome = "ok" THEN 200 ELSE 500

\* The handler runs reconstitute on the request thread.  The lengths the
\* probes report are the shortest and the longest of the model.
api_reconstitute ==
    \E has_id, use_original \in BOOLEAN, outcome \in EngineOutcomes,
       audio_exit, video_exit \in ReconstituteExits,
       audio_len, video_len \in {1, MaxSeconds} :
        LET r == reconstitute(
                     files, use_original,
                     get_media_duration_seconds(audio_exit, "number", audio_len),
                     get_media_duration_seconds(video_exit, "number", video_len))
            w == IF api_reconstitute_early(has_id, dir, files) = 0
                 THEN reconstitute_writes(files, outputs, out_name(use_original),
                                          r, outcome)
                 ELSE [files |-> files, outputs |-> outputs]
        IN  /\ files' = w.files
            /\ outputs' = w.outputs
            /\ UNCHANGED <<dir, manifest, store_progress, run, log_last,
                           callback, downloadVars, callVars>>

\* GET /api/stream/<id>/info: 404 without the directory or without the
\* reconstituted file asked for, else 200 with its size.
stream_info_code(d, outs, use_original) ==
    IF ~d THEN 404
    ELSE IF ~is_file(outs, out_name(use_original)) THEN 404
    ELSE 200

stream_info ==
    \E use_original \in BOOLEAN :
        /\ stream_info_code(dir, outputs, use_original) \in {200, 404}
        /\ UNCHANGED vars

\* GET /stream/<id>: abort(404) without the directory or without the
\* reconstituted file asked for, else the response of stream (200 or 206).
stream_code(d, outs, use_original, header, size) ==
    IF ~d THEN 404
    ELSE IF ~is_file(outs, out_name(use_original)) THEN 404
    ELSE stream(header, size).status

stream_get ==
    \E use_original \in BOOLEAN :
        /\ stream_code(dir, outputs, use_original, [kind |-> "absent"], 1)
               \in {200, 404}
        /\ UNCHANGED vars

ReconstituteNext ==
    \/ api_store
    \/ api_stored_retry /\ BagCardinality(run') <= 1
    \/ api_stored_status
    \/ api_stored_list
    \/ ThreadStep
    \/ api_reconstitute
    \/ stream_info
    \/ stream_get

\* The job service with one run of the id at a time and reconstitute
\* requests at any moment.
SpecReconstitute == Init /\ [][ReconstituteNext]_vars

(***************************************************************************)
(* The per-channel arithmetic of the diff: compute_diff blends original and *)
(* resultant with blend=all_mode=subtract, apply_diff_ffmpeg blends          *)
(* resultant and diff with blend=all_mode=addition, on 8-bit channels.      *)
(***************************************************************************)

\* The largest value of an 8-bit channel.
MaxChannel == 255

\* Clipping to the channel range.
clamp8(x) == Max(0, Min(MaxChannel, x))

\* Mutant of blend_subtract: the difference wraps around instead of being
\* clipped.
blend_subtract_wrap(top, bottom) == (top - bottom) % (MaxChannel + 1)

\* [orig][res]blend=all_mode=subtract: top - bottom, clipped.
blend_subtract(top, bottom) == clamp8(top - bottom)

\* [res][diff]blend=all_mode=addition: top + bottom, clipped.
blend_addition(top, bottom) == clamp8(top + bottom)

\* One channel value o of the original and r of the resultant taken
\* through compute_diff and apply_diff_ffmpeg, the codecs taken as
\* lossless.
DiffCalls == [fn : {"diff_round_trip"}, o : 0..MaxChannel, r : 0..MaxChannel]

Call_diff_round_trip ==
    /\ call.fn = "diff_round_trip" /\ result = Pending
    /\ LET d == blend_subtract(call.o, call.r)
       IN  result' = Return([d |-> d, out |-> blend_addition(call.r, d)])
    /\ UNCHANGED <<dir, files, manifest, store_progress, run, log_last,
                   callback, outputs, downloadVars, call>>

(***************************************************************************)
(* find_artifacts on any directory: the manifest may name files other than  *)
(* the conventional ones (a moved storage root, a hand-edited manifest).    *)
(***************************************************************************)

Artifacts == {"audio", "resultant", "diff"}

\* What manifest.json says about an artifact: null or missing key, the
\* conventional file of the directory, or a path elsewhere.
Declarations == {"null", "here", "elsewhere"}

\* manifest.json: absent, not complete JSON, or its three entries.
Manifests ==
    {[state |-> "absent"], [state |-> "partial"]}
    \cup {[state |-> "ok", entry |-> e] : e \in [Artifacts -> Declarations]}

\* Path(declared).exists()
declared_exists(m, a, conventional, elsewhere) ==
    CASE m.entry[a] = "here"      -> conventional[a]
      [] m.entry[a] = "elsewhere" -> elsewhere[a]
      [] OTHER                    -> FALSE

\* "Discover by name": audio.aac / audio.mp3, resultant.mp4, diff.ogv.
discover(conventional) ==
    [a \in Artifacts |-> IF conventional[a] THEN "conventional" ELSE "none"]

\* find_artifacts: for each artifact the path returned, "declared" (the
\* path the manifest names), "conventional" or "none".
find_artifacts_paths(m, conventional, elsewhere) ==
    IF m.state = "absent" THEN Return(discover(conventional))
    ELSE IF m.state = "partial" THEN Raises("JSONDecodeError")
    ELSE IF /\ m.entry["audio"] # "null" /\ m.entry["resultant"] # "null"
            /\ declared_exists(m, "audio", conventional, elsewhere)
            /\ declared_exists(m, "resultant", conventional, elsewhere)
    THEN Return([a \in Artifacts |->
                   IF a # "diff" THEN "declared"
                   ELSE IF declared_exists(m, "diff", conventional, elsewhere)
                        THEN "declared"
                        ELSE discover(conventional)["diff"]])
    ELSE Return(discover(conventional))

FindCalls ==
    [fn : {"find_artifacts"}, m : Manifests,
     conventional : [Artifacts -> BOOLEAN], elsewhere : [Artifacts -> BOOLEAN]]

Call_find_artifacts ==
    /\ call.fn = "find_artifacts" /\ result = Pending
    /\ result' = find_artifacts_paths(call.m, call.conventional, call.elsewhere)
    /\ UNCHANGED <<dir, files, manifest, store_progress, run, log_last,
                   callback, outputs, downloadVars, call>>

\* api_store applied to each upload on a server without items.
StoreCalls == [fn : {"api_store"}, upload : Uploads]

Call_api_store ==
    /\ call.fn = "api_store" /\ result = Pending
    /\ result' = Return(api_store_code(call.upload))
    /\ api_store_effect(call.upload)
    /\ UNCHANGED <<manifest, store_progress, log_last, callback, outputs,
                   downloadVars, call>>

\* The pure functions applied to every input of the bounded sets.
InitFunctions ==
    /\ dir = FALSE
    /\ files = [f \in FileNames |-> "absent"]
    /\ manifest = NoManifest
    /\ store_progress = None
    /\ run = EmptyBag
    /\ log_last = "none"
    /\ callback = "progress_cb"
    /\ outputs = NoOutputs
    /\ t2v_model_id = ""
    /\ t2v_download_status = IdleStatus
    /\ download = EmptyBag
    /\ call \in {c \in ProbeCalls : ValidProbeCall(c)}
                   \cup BitrateCalls \cup StreamCalls \cup ReconstituteCalls
                   \cup StoreCalls \cup DiffCalls \cup FindCalls
                   \cup GeneratorCalls \cup GeometryCalls
                   \cup RunStoreProgressCalls
    /\ result = Pending

FunctionsNext ==
    \/ Call_get_video_duration_seconds
    \/ Call_get_media_duration_seconds
    \/ Call__probe_video
    \/ Call_extract_and_compress_audio
    \/ Call_stream
    \/ Call_reconstitute
    \/ Call_api_store
    \/ Call_diff_round_trip
    \/ Call_find_artifacts
    \/ Call__stream_file_with_progress
    \/ Close__stream_file_with_progress
    \/ Call_apply_diff_ffmpeg
    \/ Call_run_store

SpecFunctions == InitFunctions /\ [][FunctionsNext]_vars

(***************************************************************************)
(* Properties.                                                             *)
(***************************************************************************)

\* C1: a retry that arrives while a store or retry run for the id is active
\* is answered 409 and starts no run, so at most one run per id is active.
C1_RetryWhileActiveConflicts ==
    /\ AnyActive => api_stored_retry_code(dir, files, store_progress) = 409
    /\ BagCardinality(run) <= 1

\* C2: whenever manifest.json exists, the audio file, script.txt and
\* resultant.mp4 all exist.
C2_ManifestImpliesArtifacts ==
    is_file(files, "manifest") =>
        /\ is_file(files, "audio")
        /\ is_file(files, "script")
        /\ is_file(files, "resultant")

\* C3: no failure of the diff stage makes compute_diff raise: a run whose
\* audio, script and video stages succeeded never ends with an exception
\* from the diff stage.
C3_DiffNeverRaises ==
    \A r \in Runs : r.pc = "exc" => r.raised # "diff"

\* C4: an existing audio file, script.txt or resultant.mp4 was completely
\* written by its stage: none of them is ever a partially written file.
C4_OutputExistsImpliesComplete ==
    \A s \in CachedStages : is_file(files, Output(s)) => files[Output(s)] = "ok"

\* C1 witness: a run is active and has not reported progress yet.
C1_Witness ==
    /\ \E r \in Runs : r.pc = "new"
    /\ store_progress = None

\* C2 witness: a forced retry on a ready item has removed script.txt and
\* resultant.mp4 while manifest.json is still there.
C2_Witness ==
    /\ files["manifest"] = "ok"
    /\ ~is_file(files, "script")
    /\ ~is_file(files, "resultant")

\* C3 witness: compute_diff raised in a run that had audio, script and video.
C3_Witness ==
    \E r \in Runs :
        /\ r.pc = "exc" /\ r.raised = "diff"
        /\ files["audio"] = "ok" /\ files["script"] = "ok"
        /\ files["resultant"] = "ok"
        /\ ~is_file(files, "manifest")

\* C4 witness: a later run skips the audio stage as cached on a partial file.
C4_Witness ==
    /\ files["audio"] = "partial"
    /\ store_progress = Progress("extracting_audio", 20, "cached")

\* The step in which run_store invokes stage s (its engine is started).
CheckPc(s) ==
    CASE s = "audio" -> "audio" [] s = "script" -> "script"
      [] s = "video" -> "video" [] s = "diff" -> "diff"
RunPc(s) ==
    CASE s = "audio" -> "audio_run" [] s = "script" -> "script_run"
      [] s = "video" -> "video_run" [] s = "diff" -> "diff_run"
StageStarts(s) ==
    \E r \in Runs : r.pc = CheckPc(s) /\ Move(r, [r EXCEPT !.pc = RunPc(s)])

\* C5 (as claimed): a second run without force on a completed directory
\* re-invokes no stage, diff computation included, whose output file exists.
C5_NoStageReinvoked ==
    [][\A s \in Stages :
          (files["manifest"] = "ok" /\ BagCardinality(run) = 1 /\ StageStarts(s))
              => ~is_file(files, Output(s))]_vars

\* C5 (amended): no run invokes audio extraction, transcription or video
\* generation while that stage's output file exists; only the diff stage,
\* which has no cache check, is invoked again.
C5_CachedStagesNotReinvoked ==
    [][\A s \in CachedStages : StageStarts(s) => ~is_file(files, Output(s))]_vars

\* C5 witness: a second run on a completed directory skipped the video stage
\* as cached and is running the diff encoder again over an existing diff.ogv.
C5_Witness ==
    /\ BagCardinality(run) = 1
    /\ \E r \in Runs : r.pc = "diff_run"
    /\ \A f \in FileNames : files[f] = "ok"
    /\ store_progress = Progress("cogvideox", 100, "cached")

\* The two removal steps of a run started with force_script.
ForceStepScript ==
    \E r \in Runs : /\ r.pc = "new" /\ r.force_script
                     /\ Move(r, [r EXCEPT !.pc = "unlink_resultant"])
ForceStepResultant ==
    \E r \in Runs : /\ r.pc = "unlink_resultant"
                     /\ Move(r, [r EXCEPT !.pc = "audio", !.force_script = FALSE])

\* C6: a run started with force_script removes, before it evaluates any
\* stage, exactly script.txt and resultant.mp4; the input video, audio,
\* diff.ogv and manifest.json are untouched, and no other step of any run
\* removes a file.
C6_ForceDeletesExactly ==
    [][/\ ForceStepScript =>
            /\ files' = [files EXCEPT !["script"] = "absent"]
            /\ manifest' = manifest
       /\ ForceStepResultant =>
            /\ files' = [files EXCEPT !["resultant"] = "absent"]
            /\ manifest' = manifest
       /\ \A f \in FileNames :
            (is_file(files, f) /\ ~is_file(files', f)) =>
                \/ f = "script" /\ ForceStepScript
                \/ f = "resultant" /\ ForceStepResultant]_vars

\* C6 witness: a forced run on a ready item has done both removals and is
\* about to evaluate the audio stage; everything else is still in place.
C6_Witness ==
    /\ BagCardinality(run) = 1
    /\ \E r \in Runs : r.pc = "audio"
    /\ files = [f \in FileNames |->
                  IF f \in {"script", "resultant"} THEN "absent" ELSE "ok"]

\* The step in which run_store returns after dumping the manifest.
ReturnStep(r) == r.pc = "dump" /\ Move(r, [r EXCEPT !.pc = "ret"])

\* C7: when a store run returns successfully, manifest.json exists and its
\* audio, script and resultant_video entries are non-null paths of files
\* that exist at that moment.
C7_ReturnedManifestValid ==
    [][(\E r \in Runs : ReturnStep(r)) =>
          /\ files'["manifest"] = "ok"
          /\ manifest'.resultant_video
          /\ is_file(files', "audio")
          /\ is_file(files', "script")
          /\ is_file(files', "resultant")]_vars

\* C7 witness: a run has returned and its manifest names a resultant video
\* that is no longer on disk.
C7_Witness ==
    /\ \E r \in Runs : r.pc = "ret"
    /\ files["manifest"] = "ok"
    /\ manifest.resultant_video
    /\ ~is_file(files, "resultant")

\* C8: the manifest a run writes has a non-null diff_video iff diff was
\* enabled and succeeded in that run, whatever diff.ogv is on disk.
C8_DiffVideoIffDiffSucceeded ==
    [][\A r \in Runs :
          ReturnStep(r) => (manifest'.diff_video <=> r.dout = "ok")]_vars

\* C8 witness: a run whose diff was disabled or failed has written a manifest
\* with diff_video null while a diff.ogv of an earlier run is on disk.
C8_Witness ==
    /\ BagCardinality(run) = 1
    /\ \E r \in Runs : r.pc = "ret" /\ r.dout \in {"disabled", "failed"}
    /\ files["diff"] = "ok"
    /\ files["manifest"] = "ok"
    /\ ~manifest.diff_video

\* C9: the job table holds a record for the id only while a run for the id
\* is active; once every run has finished, by return or by exception, it
\* holds none.
C9_RecordOnlyWhileActive ==
    store_progress # None => AnyActive

\* C9 witness: a run has ended by an exception (the directory has no
\* manifest), no run is active and the table holds no record.
C9_Witness ==
    /\ dir
    /\ ~AnyActive
    /\ ~is_file(files, "manifest")
    /\ store_progress = None

\* C10: for an existing directory the status endpoint reports ready iff the
\* manifest is present, reports processing only when a job is active, and
\* does not report processing when there is no manifest and no active job.
C10_StatusClassification ==
    LET status == api_stored_status_of(dir, files, store_progress)
    IN  dir =>
          /\ status = "ready" => is_file(files, "manifest")
          /\ files["manifest"] = "ok" => status = "ready"
          /\ status = "processing" => (store_progress # None \/ AnyActive)
          /\ (~is_file(files, "manifest") /\ ~AnyActive /\ store_progress = None)
                 => status # "processing"

\* C10 witness: a directory left by a failed run, with no manifest and no
\* job, for which the status endpoint answers "processing".
C10_Witness ==
    /\ dir /\ ~AnyActive /\ store_progress = None
    /\ ~is_file(files, "manifest")
    /\ api_stored_status_of(dir, files, store_progress) = "processing"

\* C11: the list endpoint reports an existing item as ready when the manifest
\* is present, as processing when there is no manifest and the job table
\* holds a job for the id, and as incomplete when there is no manifest and
\* no job.
C11_ListClassification ==
    LET status == api_stored_list_of(dir, files, store_progress)
    IN  (dir /\ is_file(files, "input")) =>
          /\ is_file(files, "manifest") => status = "ready"
          /\ (~is_file(files, "manifest") /\ store_progress # None)
                 => status = "processing"
          /\ (~is_file(files, "manifest") /\ store_progress = None /\ ~AnyActive)
                 => status = "incomplete"

\* C11 witness: a run is active and has reported progress, there is no
\* manifest yet, and the list calls the item incomplete.
C11_Witness ==
    /\ AnyActive /\ store_progress # None
    /\ ~is_file(files, "manifest")
    /\ api_stored_list_of(dir, files, store_progress) = "incomplete"

\* C12: a download request that arrives while a download has been started
\* and has not finished is not accepted, so at most one background download
\* is running.
C12_DownloadWhileActiveConflicts ==
    /\ download # EmptyBag =>
          api_t2v_download_code(t2v_model_id, t2v_download_status) # 202
    /\ BagCardinality(download) <= 1

\* C12 witness: a download thread has been started and has not yet set the
\* record to "downloading", and a model id is configured.
C12_Witness ==
    /\ \E t \in BagToSet(download) : t.pc = "new"
    /\ t2v_download_status.status # "downloading"
    /\ t2v_model_id # ""

\* The "unknown" result of a probe: duration 0.0, or no media info.
UnknownResult(fn) == IF fn = "_probe_video" THEN NoInfo ELSE 0

\* C13: every probe, however ffprobe ends (missing file or executable,
\* non-zero exit, unparsable output, timeout), returns to its caller and
\* never raises; when the probe failed it returns the unknown result.
C13_ProbesNeverRaise ==
    (call.fn \in ProbeFns /\ result.kind # "pending") =>
        /\ result.kind = "return"
        /\ (call.exit # "exit0" \/ call.text \in {"garbage", "no_streams", "no_width"})
               => result.value = UnknownResult(call.fn)

\* C13 witness: ffprobe exceeded the timeout and the probe raised.
C13_Witness ==
    /\ call.fn \in ProbeFns
    /\ call.exit = "timeout"
    /\ result.kind = "raise"

\* Where run_store goes on when it skips stage s as cached.
NextPc(s) ==
    CASE s = "audio" -> "script" [] s = "script" -> "video"
      [] s = "video" -> "diff"
StageSkips(s) ==
    \E r \in Runs : r.pc = CheckPc(s) /\ Move(r, [r EXCEPT !.pc = NextPc(s)])

\* A run that skipped the video stage as cached, hence a run without force
\* (a forced run has removed resultant.mp4), starts the diff encoder.
UnforcedDiffStarts ==
    /\ store_progress = Progress("cogvideox", 100, "cached")
    /\ StageStarts("diff")

\* C14 (as claimed): after a run has failed, a retry without force skips
\* exactly the stages whose output file exists, the diff stage included,
\* and runs the others; when it returns the manifest is written and the
\* item is ready.
C14_RetrySkipsExactlyExisting ==
    [][log_last = "failed" =>
          /\ \A s \in CachedStages :
                /\ StageStarts(s) => ~is_file(files, Output(s))
                /\ StageSkips(s) => is_file(files, Output(s))
          /\ UnforcedDiffStarts => ~is_file(files, "diff")
          /\ (\E r \in Runs : ReturnStep(r)) =>
                api_stored_status_of(dir', files', store_progress') = "ready"]_vars

\* C14 (amended): every run skips exactly those of audio extraction,
\* transcription and video generation whose output file exists and invokes
\* the others; a run ends with an exception only when one of its stages or
\* the diff computation raised; a run that returns leaves the manifest
\* written and the item ready; and every run that reaches the manifest
\* write makes the item ready, and every run ends.
C14_RetryResumesFromOutputs ==
    /\ [][/\ \A s \in CachedStages :
               /\ StageStarts(s) => ~is_file(files, Output(s))
               /\ StageSkips(s) => is_file(files, Output(s))
          /\ \A r \in BagToSet(run') : r.pc = "exc" => r.raised \in Stages
          /\ (\E r \in Runs : ReturnStep(r)) =>
                api_stored_status_of(dir', files', store_progress') = "ready"]_vars
    /\ (\E r \in Runs : r.pc = "manifest") ~> (files["manifest"] = "ok")
    /\ AnyActive ~> ~AnyActive

\* C14 witness: after a failed run, a retry has skipped the audio stage as
\* cached and is about to run the transcription, whose output is missing.
C14_Witness ==
    /\ log_last = "failed"
    /\ \E r \in Runs : r.pc = "script"
    /\ store_progress = Progress("extracting_audio", 20, "cached")
    /\ files["audio"] = "ok"
    /\ ~is_file(files, "script")

\* The step in which a run that ended with an exception finishes.
FailedStep(r) == r.pc = "exc" /\ End(r)

\* C15: whenever a store or retry run ends because a stage failed, the item
\* directory has no manifest.json and the item is not reported ready.
C15_FailedRunLeavesIncomplete ==
    [][(\E r \in Runs : FailedStep(r)) =>
          /\ ~is_file(files', "manifest")
          /\ api_stored_status_of(dir', files', store_progress') # "ready"
          /\ api_stored_list_of(dir', files', store_progress') # "ready"]_vars

\* C15 witness: a forced retry on a ready item failed in the transcription
\* stage; the old manifest is still there and the item is reported ready.
C15_Witness ==
    /\ ~AnyActive /\ log_last = "failed"
    /\ files["manifest"] = "ok"
    /\ ~is_file(files, "script")
    /\ api_stored_status_of(dir, files, store_progress) = "ready"

\* C16: manifest.json is never in a partially written state in which a
\* status request, a list request or reconstitute can find it: a request
\* that finds the file can load it.
C16_ManifestNeverPartial ==
    /\ files["manifest"] # "partial"
    /\ api_stored_status_of(dir, files, store_progress) # "error"

\* C16 witness: _write_manifest has opened manifest.json for writing and has
\* not dumped it yet; the list calls the item ready and the status request
\* fails to load the file.
C16_Witness ==
    /\ \E r \in Runs : r.pc = "dump"
    /\ files["manifest"] = "partial"
    /\ api_stored_list_of(dir, files, store_progress) = "ready"
    /\ api_stored_status_of(dir, files, store_progress) = "error"

\* The phase under which the callback reports stage s (run_store has no
\* report for the diff stage).
PhaseOf(s) ==
    CASE s = "audio" -> "extracting_audio" [] s = "script" -> "transcribing"
      [] s = "video" -> "cogvideox" [] s = "diff" -> "diff"

\* Where a run is after stage s returned.
AfterPc(s) == IF s = "diff" THEN "manifest" ELSE NextPc(s)

\* The step in which the engine of stage s returns successfully.
StageReturns(s) ==
    \E r \in Runs : /\ r.pc = RunPc(s)
                     /\ \E r2 \in BagToSet(run') : r2.pc = AfterPc(s) /\ Move(r, r2)

\* C17: in every run the progress callback is invoked for every stage
\* (audio, transcription, video generation, diff) when the stage starts and
\* when it ends, and when the stage is skipped as cached.
C17_CallbackAtStartAndEnd ==
    [][\A s \in Stages :
          /\ StageStarts(s) => store_progress'.phase = PhaseOf(s)
          /\ StageReturns(s) => store_progress'.phase = PhaseOf(s)
          /\ (s \in CachedStages /\ StageSkips(s))
                => store_progress'.phase = PhaseOf(s)]_vars

\* C17 witness: the video stage has been started (default backend) and the
\* last progress report is still the one that ended the transcription.
C17_Witness ==
    /\ \E r \in Runs : r.pc = "video_run"
    /\ store_progress = Progress("transcribing", 40, "done")

\* C18: an exception raised by the progress callback at any of its
\* invocation points is swallowed: it never ends the run.
C18_CallbackExceptionSwallowed ==
    \A r \in Runs : r.pc = "exc" => r.raised # "callback"

\* C18 witness: the injected callback raised when run_store reported the
\* end of the audio stage, and run_store ended with that exception although
\* the audio had been extracted.
C18_Witness ==
    /\ callback = "injected"
    /\ \E r \in Runs : r.pc = "exc" /\ r.raised = "callback"
    /\ files["audio"] = "ok"
    /\ store_progress = Progress("extracting_audio", 10, "start")

\* C19: for max_mb > 0 and a probed duration D > 0 the audio bitrate is
\* floor(max_mb * 8000 / D) clamped into [32, 320] kbps, hence between 32
\* and 320; for D <= 0 it is 128 kbps.
C19_BitrateClamped ==
    (call.fn = "extract_and_compress_audio" /\ result.kind = "return") =>
        LET exact == (call.max_mb * 8000) \div call.duration
        IN  IF call.duration > 0
            THEN /\ 32 <= result.value /\ result.value <= 320
                 /\ exact < 32 => result.value = 32
                 /\ exact > 320 => result.value = 320
                 /\ (32 <= exact /\ exact <= 320) => result.value = exact
            ELSE result.value = 128

\* C19 witness: a bitrate strictly inside the range was computed from a
\* known duration.
C19_Witness ==
    /\ call.fn = "extract_and_compress_audio"
    /\ call.duration > 0
    /\ result.kind = "return"
    /\ 32 < result.value /\ result.value < 320
    /\ result.value = (call.max_mb * 8000) \div call.duration

\* The bounds a header bytes=<s>-<e> asks for on a file of `size` bytes: a
\* missing start means 0, a missing end means size - 1.
AskedStart(header) == IF header.s = <<>> THEN 0 ELSE int(header.s)
AskedEnd(header, size) == IF header.e = <<>> THEN size - 1 ELSE int(header.e)

\* C20: for a file of size S > 0 and a header bytes=a-b with a <= b and
\* a < S, the stream response is 206 with the range [a, e], e = min(b, S-1),
\* 0 <= a <= e <= S-1, Content-Range "bytes a-e/S", Accept-Ranges bytes and
\* Content-Length e - a + 1.
C20_RangeResponse ==
    (call.fn = "stream" /\ result.kind = "return" /\ call.header.kind = "bytes") =>
        LET a == AskedStart(call.header)
            b == AskedEnd(call.header, call.size)
            e == Min(b, call.size - 1)
            resp == result.value
        IN  (a <= b /\ a < call.size) =>
                /\ resp.status = 206
                /\ 0 <= a /\ a <= e /\ e <= call.size - 1
                /\ resp.Content_Range = <<a, e, call.size>>
                /\ resp.Accept_Ranges = "bytes"
                /\ resp.Content_Length = e - a + 1

\* C20 witness: a range whose end lies beyond the file was answered 206
\* with the end clipped to the last byte.
C20_Witness ==
    /\ call.fn = "stream" /\ result.kind = "return"
    /\ call.header.kind = "bytes"
    /\ call.header.s # <<>> /\ call.header.e # <<>>
    /\ 0 < int(call.header.s)
    /\ int(call.header.e) > call.size - 1
    /\ result.value.status = 206
    /\ result.value.Content_Range = <<int(call.header.s), call.size - 1, call.size>>

\* The range a header asks for cannot be served from a file of `size` bytes.
Unsatisfiable(header, size) ==
    \/ AskedStart(header) > AskedEnd(header, size)
    \/ AskedStart(header) >= size

\* C21: a stream request with no Range header, or with one that is
\* malformed or unsatisfiable, is answered 200 with Content-Length equal to
\* the file size and no Content-Range.
C21_NoRangeFullResponse ==
    (call.fn = "stream" /\ result.kind = "return") =>
        LET h == call.header
            resp == result.value
        IN  (h.kind # "bytes" \/ h.tail # "" \/ Unsatisfiable(h, call.size)) =>
                /\ resp.status = 200
                /\ resp.Content_Length = call.size
                /\ resp.Content_Range = <<>>

\* C21 witness: a header with text after the range, "bytes=<s>-<e>xyz", was
\* answered 206 with a Content-Range.
C21_Witness ==
    /\ call.fn = "stream" /\ result.kind = "return"
    /\ call.header.kind = "bytes" /\ call.header.tail # ""
    /\ result.value.status = 206
    /\ result.value.Content_Range # <<>>

\* C22: whenever reconstitute has an audio duration Ad > 0 and runs the media
\* engine, with or without the diff, the output lasts Ad: the command cuts at
\* Ad; with the resultant duration Vd >= Ad or unknown the video is not
\* looped; with 0 < Vd < Ad it is looped floor(Ad/Vd)+1 times, which covers
\* at least Ad.
C22_OutputDurationIsAudioDuration ==
    (call.fn = "reconstitute" /\ result.kind = "return") =>
        LET Ad  == call.audio_len
            Vd  == get_media_duration_seconds(call.video_exit, "number",
                                              call.video_len).value
            cmd == result.value.cmd
        IN  /\ ffmpeg_duration(cmd, call.audio_len, call.video_len) = Ad
            /\ cmd.t = Ad
            /\ cmd.blend = (call.use_diff /\ is_file(call.fs, "diff"))
            /\ (Vd >= Ad \/ Vd <= 0) => ~cmd.looped
            /\ (0 < Vd /\ Vd < Ad) =>
                   /\ cmd.looped
                   /\ cmd.stream_loop = (Ad \div Vd) + 1
                   /\ cmd.stream_loop * Vd >= Ad

\* A looped reconstitution with the diff whose video length does not divide
\* the audio length has returned.
C22_Witness ==
    /\ call.fn = "reconstitute" /\ result.kind = "return"
    /\ result.value.cmd.looped /\ result.value.cmd.blend
    /\ call.audio_len % call.video_len # 0

\* C23: reconstitute on a directory where the audio file or resultant.mp4
\* cannot be resolved fails with the missing-artifacts error
\* (FileNotFoundError), raised before any probe or media-engine command, so
\* no output is written.
C23_MissingArtifactsError ==
    (/\ call.fn = "reconstitute" /\ result # Pending
     /\ ~is_file(call.fs, "audio") \/ ~is_file(call.fs, "resultant"))
        => result = Raises("FileNotFoundError")

\* C23 witness: on a directory without resultant.mp4 whose manifest.json is
\* not complete JSON, reconstitute raised JSONDecodeError.
C23_Witness ==
    /\ call.fn = "reconstitute"
    /\ ~is_file(call.fs, "resultant")
    /\ call.fs["manifest"] = "partial"
    /\ result = Raises("JSONDecodeError")

\* With manifest.json absent or complete, missing artifacts give the
\* missing-artifacts error.
ParseableManifestMissingArtifacts ==
    (/\ call.fn = "reconstitute" /\ result # Pending
     /\ call.fs["manifest"] # "partial"
     /\ ~is_file(call.fs, "audio") \/ ~is_file(call.fs, "resultant"))
        => result = Raises("FileNotFoundError")

\* A step of api_reconstitute.
ReconstituteStep ==
    \/ outputs' # outputs
    \/ api_reconstitute

\* C24: a reconstitute request, succeeding or failing, with or without the
\* use-diff flag, creates or replaces at most the one reconstituted output it
\* names and leaves input, audio, script, resultant, diff, manifest.json and
\* the job table unchanged.
C24_ReconstituteWritesOnlyOutput ==
    [][ReconstituteStep =>
          /\ UNCHANGED <<dir, files, manifest, store_progress, run>>
          /\ \E o \in OutputNames :
                \A p \in OutputNames \ {o} : outputs'[p] = outputs[p]]_vars

\* Both kinds of request have been served on a complete item, one
\* succeeding with the diff and one failing while it wrote, and every file of
\* the store run is still complete.
C24_Witness ==
    /\ outputs["reconstituted_original"] = "ok"
    /\ outputs["reconstituted"] = "partial"
    /\ \A f \in FileNames : files[f] = "ok"
    /\ ~AnyActive

\* The positions of run_store in program order.
PcOrder == <<"new", "unlink_resultant", "audio", "audio_run", "script",
             "script_run", "video", "video_run", "diff", "diff_run",
             "manifest", "dump", "ret">>
Rank(pc) == CHOOSE i \in 1..Len(PcOrder) : PcOrder[i] = pc

\* compute_diff is called.
DiffStageStarts ==
    \E r \in Runs : /\ r.pc = "diff"
                     /\ \E r2 \in BagToSet(run') : r2.pc # "diff" /\ Move(r, r2)

\* C25: within one store run the stages take effect in the order audio,
\* transcription, video generation, diff, manifest write: a run only moves
\* forward through them, transcription starts only when the audio file
\* exists, video generation only when script.txt exists, the diff only when
\* resultant.mp4 exists, and manifest.json is written only by a run whose
\* diff stage has returned.
C25_StagesInOrder ==
    [][/\ \A r \in Runs : \A r2 \in BagToSet(run') :
              (r2 # r /\ Move(r, r2)) =>
                  \/ r2.pc = "exc"
                  \/ Rank(r2.pc) > Rank(r.pc)
       /\ StageStarts("script") => is_file(files, "audio")
       /\ StageStarts("video") => is_file(files, "script")
       /\ DiffStageStarts => is_file(files, "resultant")
       /\ files'["manifest"] # files["manifest"] =>
              \E r \in Runs : r.pc \in {"manifest", "dump"} /\ r.dout # "na"
      ]_vars

\* A run that extracted the audio, transcribed, generated the video and
\* computed the diff in this run is writing the manifest.
C25_Witness ==
    /\ \E r \in Runs : r.pc = "dump" /\ r.dout = "ok"
    /\ files["manifest"] = "partial"
    /\ \A f \in {"audio", "script", "resultant", "diff"} : files[f] = "ok"
    /\ manifest = NoManifest

\* A store request is accepted: the item directory appears.
StoreAccepted == ~dir /\ dir'

\* C26: a store request with a valid upload creates the directory of a fresh
\* id, saves the input there and answers without waiting for any stage: when
\* it returns no stage has produced anything and no progress is recorded,
\* the pipeline is a newly started thread, and while a run is in progress the
\* status and list requests are answered.
C26_StoreReturnsAtOnce ==
    /\ [][StoreAccepted =>
            /\ files'["input"] = "ok"
            /\ \A f \in FileNames \ {"input"} : files'[f] = "absent"
            /\ store_progress' = None
            /\ \E r \in BagToSet(run') :
                  /\ r.pc = "new" /\ ~r.force_script
                  /\ run' = run (+) SetToBag({r})]_vars
    /\ [](AnyActive => /\ ENABLED api_stored_status
                       /\ ENABLED api_stored_list)

\* The run of an accepted store request is generating the video while the
\* status request answers "processing" and the list shows the item as
\* incomplete.
C26_Witness ==
    /\ \E r \in Runs : r.pc = "video_run"
    /\ BagCardinality(run) = 1
    /\ api_stored_status_of(dir, files, store_progress) = "processing"
    /\ api_stored_list_of(dir, files, store_progress) = "incomplete"

\* The upload is one api_store rejects: no file part, an empty filename or
\* an extension outside the allowed set.
InvalidUpload(u) ==
    \/ u.part = "none"
    \/ u.filename = ""
    \/ ext(u.filename) \notin ALLOWED_EXTENSIONS

\* C27: a store request with no file, an empty filename or a disallowed
\* extension is answered 400 and changes nothing: no item directory, no
\* file, no job record and no run.
C27_InvalidUploadRejected ==
    (call.fn = "api_store" /\ result # Pending /\ InvalidUpload(call.upload)) =>
        /\ result = Return(400)
        /\ ~dir
        /\ \A f \in FileNames : files[f] = "absent"
        /\ store_progress = None
        /\ run = EmptyBag

\* An upload in the field "video" named notes.txt has been answered 400.
C27_Witness ==
    /\ call.fn = "api_store"
    /\ call.upload = [part |-> "video", filename |-> "notes.txt"]
    /\ result = Return(400)

Abs(x) == IF x < 0 THEN -x ELSE x

ForcedOnScriptAndResultant ==
    /\ call.fn = "_run_store" /\ call.force_script
    /\ is_file(call.fs, "script") /\ is_file(call.fs, "resultant")

\* C29: a run started with force_script on a directory that holds script.txt
\* and resultant.mp4 skips neither the transcription nor the video
\* generation as cached, reaches the manifest only after compute_diff was
\* called and returned in this run, and does not run the audio stage when
\* the audio file exists.
C29_ForcedRunRerunsStages ==
    [][ForcedOnScriptAndResultant =>
          /\ ~StageSkips("script")
          /\ ~StageSkips("video")
          /\ \A r \in Runs : (r.pc = "manifest" /\ ~(r \in BagToSet(run')))
                                 => r.dout # "na"
          /\ is_file(call.fs, "audio") => ~StageStarts("audio")]_vars

\* The forced run on a complete item has skipped the audio, written
\* script.txt and resultant.mp4 anew, computed the diff and is about to
\* write the manifest.
C29_Witness ==
    /\ ForcedOnScriptAndResultant
    /\ is_file(call.fs, "manifest")
    /\ \E r \in Runs : r.pc = "manifest" /\ r.dout = "ok"
    /\ \A f \in FileNames : files[f] = "ok"

\* The call would succeed without use_diff: manifest.json readable, audio
\* and resultant resolved, the audio duration probed, the probe of the
\* resultant not timing out.
PlainMergePossible ==
    /\ call.fn = "reconstitute"
    /\ call.fs["manifest"] # "partial"
    /\ is_file(call.fs, "audio") /\ is_file(call.fs, "resultant")
    /\ call.audio_exit = "exit0"
    /\ call.video_exit # "timeout"

\* C30: reconstitute with use_diff on a directory without a diff file does
\* not fail: it warns and runs exactly the command of the plain merge of
\* resultant and audio.
C30_MissingDiffDegradesToMerge ==
    (/\ PlainMergePossible /\ result # Pending
     /\ call.use_diff /\ ~is_file(call.fs, "diff")) =>
        LET Vd == get_media_duration_seconds(call.video_exit, "number",
                                             call.video_len).value
        IN  /\ result.kind = "return"
            /\ result.value.warning
            /\ ~result.value.cmd.blend
            /\ result.value.cmd = _merge_ffmpeg(call.audio_len, Vd)

\* reconstitute with use_diff, without diff.ogv, has returned with the
\* warning and a looped plain merge.
C30_Witness ==
    /\ call.fn = "reconstitute" /\ call.use_diff /\ ~is_file(call.fs, "diff")
    /\ result.kind = "return"
    /\ result.value.warning
    /\ result.value.cmd.looped /\ result.value.cmd.vcodec = "libx264"

\* The path the claim assigns to artifact a: the declared path when it
\* exists, else the conventional file when that exists, else none.
ResolvedIndependently(c, a) ==
    IF c.m.state = "ok" /\ declared_exists(c.m, a, c.conventional, c.elsewhere)
    THEN {"declared"} \cup (IF c.m.entry[a] = "here" THEN {"conventional"} ELSE {})
    ELSE IF c.conventional[a] THEN {"conventional"}
    ELSE {"none"}

\* C31: find_artifacts resolves each of audio, resultant and diff on its
\* own: to the manifest-declared path when that path exists, otherwise to
\* the conventional file when that exists, and to none only when neither
\* exists.
C31_ResolvedIndependently ==
    (call.fn = "find_artifacts" /\ result # Pending /\ call.m.state # "partial") =>
        /\ result.kind = "return"
        /\ \A a \in Artifacts :
              result.value[a] \in ResolvedIndependently(call, a)

\* C31 witness: the manifest names an audio file elsewhere that exists and
\* a resultant elsewhere that does not; the directory holds resultant.mp4
\* and no audio file, and find_artifacts returned no audio path.
C31_Witness ==
    /\ call.fn = "find_artifacts" /\ result.kind = "return"
    /\ call.m.state = "ok"
    /\ call.m.entry["audio"] = "elsewhere" /\ call.elsewhere["audio"]
    /\ call.m.entry["resultant"] = "elsewhere" /\ ~call.elsewhere["resultant"]
    /\ call.conventional["resultant"] /\ ~call.conventional["audio"]
    /\ result.value["audio"] = "none"

\* The answers api_reconstitute can give in the current state to a request
\* that names the id.
ReconstituteCodes ==
    {api_reconstitute_code(
         TRUE, dir, files,
         reconstitute(files, use_original,
                      get_media_duration_seconds(audio_exit, "number", audio_len),
                      get_media_duration_seconds(video_exit, "number", video_len)),
         outcome) :
       use_original \in BOOLEAN, outcome \in EngineOutcomes,
       audio_exit \in ReconstituteExits, video_exit \in ReconstituteExits,
       audio_len \in {1, MaxSeconds}, video_len \in {1, MaxSeconds}}

\* The item is ready and its audio or its resultant is missing.
ArtifactMissing ==
    /\ dir /\ files["manifest"] = "ok"
    /\ ~is_file(files, "audio") \/ ~is_file(files, "resultant")

\* C32: a request that names a resource that does not exist is answered
\* with 404: status, retry, stream-info and stream of an unknown id,
\* reconstitute of an item that is not ready or whose audio or resultant is
\* missing, stream of an item without the reconstituted file.
C32_MissingIsNotFound ==
    /\ ~dir =>
          /\ api_stored_status_of(dir, files, store_progress) = "not_found"
          /\ api_stored_retry_code(dir, files, store_progress) = 404
          /\ \A o \in BOOLEAN :
                /\ stream_info_code(dir, outputs, o) = 404
                /\ stream_code(dir, outputs, o, [kind |-> "absent"], 1) = 404
    /\ (~dir \/ ~is_file(files, "manifest")) =>
          api_reconstitute_early(TRUE, dir, files) = 404
    /\ \A o \in BOOLEAN :
          ~is_file(outputs, out_name(o)) =>
              stream_code(dir, outputs, o, [kind |-> "absent"], 1) = 404
    /\ ArtifactMissing => ReconstituteCodes = {404}

\* C32 witness: a ready item whose resultant is missing, and the answer
\* of reconstitute to it is 400.
C32_Witness ==
    /\ ArtifactMissing
    /\ ReconstituteCodes = {400}

\* The parts of C32 other than the artifacts of a ready item.
OtherMissingIsNotFound ==
    /\ ~dir =>
          /\ api_stored_status_of(dir, files, store_progress) = "not_found"
          /\ api_stored_retry_code(dir, files, store_progress) = 404
          /\ \A o \in BOOLEAN :
                /\ stream_info_code(dir, outputs, o) = 404
                /\ stream_code(dir, outputs, o, [kind |-> "absent"], 1) = 404
    /\ (~dir \/ ~is_file(files, "manifest")) =>
          api_reconstitute_early(TRUE, dir, files) = 404
    /\ \A o \in BOOLEAN :
          ~is_file(outputs, out_name(o)) =>
              stream_code(dir, outputs, o, [kind |-> "absent"], 1) = 404

RECURSIVE Flatten(_)
Flatten(chunks) ==
    IF chunks = <<>> THEN <<>>
    ELSE Head(chunks) \o Flatten(Tail(chunks))

\* The chunks the generator has yielded so far, and their bytes.
YieldedChunks == IF result.kind = "yield" THEN result.chunks ELSE result.value.chunks
YieldedBytes == Flatten(YieldedChunks)

\* C33: for a file of size S and a range 0 <= start <= end <= S-1 the
\* generator yields the bytes start..end in order, in chunks of at most
\* chunk_size bytes, none of them empty; when it ends by itself it has
\* yielded end-start+1 bytes, the announced Content-Length; when the
\* consumer stops after a chunk it ends without error.
C33_StreamYieldsRange ==
    (call.fn = "_stream_file_with_progress" /\ result # Pending) =>
        /\ result.kind \in {"yield", "return"}
        /\ \A k \in 1..Len(YieldedChunks) :
              Len(YieldedChunks[k]) \in 1..chunk_size
        /\ Len(YieldedBytes) <= call.end - call.start + 1
        /\ \A i \in 1..Len(YieldedBytes) : YieldedBytes[i] = call.start + i - 1
        /\ (result.kind = "return" /\ ~result.value.closed) =>
              /\ Len(YieldedBytes) = call.end - call.start + 1
              /\ result.value.sent = call.end - call.start + 1

\* C33 witness: a range of more than two chunks has been yielded whole, the
\* last chunk shorter than the others.
C33_Witness ==
    /\ call.fn = "_stream_file_with_progress" /\ result.kind = "return"
    /\ ~result.value.closed
    /\ call.start > 0 /\ call.end < call.size - 1
    /\ Len(result.value.chunks) >= 3
    /\ Len(result.value.chunks[Len(result.value.chunks)]) < chunk_size

\* The consumer stopped after the first of several chunks.
StreamClosedEarly ==
    /\ call.fn = "_stream_file_with_progress" /\ result.kind = "return"
    /\ result.value.closed
    /\ result.value.sent < call.end - call.start + 1

\* Every call of the pure functions comes to its end.
SpecFunctionsFair == SpecFunctions /\ WF_vars(Call__stream_file_with_progress)
StreamTerminates ==
    (call.fn = "_stream_file_with_progress") ~> (result.kind = "return")

\* C34: the resultant stream and the diff stream that apply adds frame by
\* frame have the same width, height and frame rate, for every stored item.
C34_BlendedStreamsSameGeometry ==
    (call.fn = "apply_diff_ffmpeg" /\ result # Pending) =>
        result.value.res = result.value.diff

\* C34 witness: an original of 640x480 stored with the stub backend; apply
\* adds a 1280x720 resultant and a 640x480 diff.
C34_Witness ==
    /\ call.fn = "apply_diff_ffmpeg" /\ result.kind = "return"
    /\ call.backend = "stub"
    /\ call.original.width = 640 /\ call.original.height = 480
    /\ result.value.res.width = 1280 /\ result.value.res.height = 720
    /\ result.value.diff.width = 640 /\ result.value.diff.height = 480

\* When the resultant has the original's geometry the two streams agree.
SameGeometryWhenResultantMatches ==
    (/\ call.fn = "apply_diff_ffmpeg" /\ result # Pending
     /\ resultant_geometry(call.backend, call.generated) = call.original) =>
        result.value.res = result.value.diff

\* A store or retry run is deleting or writing the resultant or the diff:
\* between the unlinks of a forced retry, in the video engine, or in the
\* diff engine.
RunWriting ==
    \E r \in Runs : r.pc \in {"unlink_resultant", "video_run", "diff_run"}

\* A reconstitute request for the id passes the handler's early returns
\* and reads the item's files.
ReconstituteReads == api_reconstitute_early(TRUE, dir, files) = 0

\* C35: no reconstitute reads the item's files, and writes its output from
\* them, while a store or retry run of the same id is deleting or writing
\* them.
C35_ReadersWritersSerialized ==
    [][(ReconstituteReads /\ outputs' # outputs) => ~RunWriting]_vars

\* C35 witness: a retry is in the video engine, writing resultant.mp4 of a
\* ready item, and a reconstitute request would read the item now.
C35_Witness ==
    /\ ReconstituteReads
    /\ files["manifest"] = "ok"
    /\ \E r \in Runs : r.pc = "video_run"

NonDecreasing(seq) ==
    \A i, j \in 1..Len(seq) : i < j => seq[i] <= seq[j]

\* C36: the progress values of one store run are non-decreasing and within
\* [0, 1], for every backend and every mix of cached and executed stages,
\* and 1.0 is not among them: they all precede the write of the manifest.
C36_ProgressMonotone ==
    (call.fn = "run_store" /\ result # Pending) =>
        /\ NonDecreasing(result.value)
        /\ \A i \in 1..Len(result.value) : result.value[i] \in 0..99

\* C36 witness: a run of the stub backend that finds resultant.mp4 cached
\* has reported 1.0 as its last value.
C36_Witness ==
    /\ call.fn = "run_store" /\ result.kind = "return"
    /\ call.backend = "stub" /\ call.resultant_cached /\ ~call.script_cached
    /\ call.visual /\ call.frames = 5
    /\ result.value[Len(result.value)] = 100

\* A run of the cogvideox backend without torch reports 0 after 0.4.
ProgressFallsBack ==
    /\ call.fn = "run_store" /\ result.kind = "return"
    /\ call.backend = "cogvideox" /\ ~call.resultant_cached
    /\ call.outcome = "import_error"
    /\ result.value[Len(result.value)] = 0

\* With the stub backend and no cached resultant the claim holds.
StubProgressMonotone ==
    (/\ call.fn = "run_store" /\ result # Pending
     /\ call.backend = "stub" /\ ~call.resultant_cached) =>
        /\ NonDecreasing(result.value)
        /\ \A i \in 1..Len(result.value) : result.value[i] \in 0..99

\* The values stay within [0, 1] in every run.
ProgressWithinUnit ==
    (call.fn = "run_store" /\ result # Pending) =>
        \A i \in 1..Len(result.value) : result.value[i] \in 0..100

====
